---- MODULE Spec2Model ----
(***************************************************************************)
(* Model of scripts/main_workflow_local.py (the orchestrator of the        *)
(* auto-sync workflow) and of scripts/image_processor.py.                  *)
(*                                                                         *)
(* Strings are tuples of one-character strings, so that str.replace,       *)
(* str.strip and len are computed as Python computes them.  The staging    *)
(* directory temp_output is a function from file names to file contents;   *)
(* the target tree is a function from document paths to file contents.     *)
(* main() is a sequential program: mpc is its position, fpc the position   *)
(* of the call of process_regular_modified_file in progress.               *)
(***************************************************************************)
EXTENDS Integers, Sequences, FiniteSets, TLC

\* ------------------------------------------------------------------ bounds
\* number of modified files of one change set
MaxFiles == 2

\* ------------------------------------------------------- program constants
SOURCE_TOKEN_LIMIT == 5000
DashCount == 80

\* ----------------------------------------------------------------- strings
MdExt == <<".", "m", "d">>
Slash == <<"/">>
Dash == <<"-">>
Empty == <<>>

\* str.replace(old, new): every non-overlapping occurrence, left to right
RECURSIVE Replace(_, _, _)
Replace(s, old, new) ==
  IF Len(s) < Len(old) THEN s
  ELSE IF SubSeq(s, 1, Len(old)) = old
       THEN new \o Replace(SubSeq(s, Len(old) + 1, Len(s)), old, new)
       ELSE <<Head(s)>> \o Replace(Tail(s), old, new)

IsSpace(c) == c \in {" ", "\n"}
IsLetter(c) == ~IsSpace(c)

\* str.strip(): leading and trailing whitespace removed
RECURSIVE LStrip(_)
LStrip(s) == IF s # <<>> /\ IsSpace(Head(s)) THEN LStrip(Tail(s)) ELSE s
RECURSIVE RStrip(_)
RStrip(s) ==
  IF s # <<>> /\ IsSpace(s[Len(s)]) THEN RStrip(SubSeq(s, 1, Len(s) - 1)) ELSE s
Strip(s) == RStrip(LStrip(s))

\* os.path.basename: what follows the last "/"
RECURSIVE Basename(_)
Basename(p) ==
  IF \E i \in 1..Len(p) : p[i] = "/" THEN Basename(Tail(p)) ELSE p

\* the document paths of the model
PathAB == <<"a", "/", "b", ".", "m", "d">>
PathA_B == <<"a", "-", "b", ".", "m", "d">>
PathC == <<"c", ".", "m", "d">>
PathToc == <<"T", "O", "C", ".", "m", "d">>
Paths == {PathAB, PathA_B, PathC, PathToc}
SPECIAL_FILES == {PathToc}
\* a document the change request deletes, and one it adds
PathOld == <<"o", ".", "m", "d">>
PathNew == <<"n", ".", "m", "d">>
TargetPaths == Paths \cup {PathOld, PathNew}

\* ------------------------------------------------------- staging file names
SourceDiffSuffix == <<"-source-diff-dict.json">>
MatchSuffix == <<"-match_source_diff_to_target.json">>

\* source_file_path.replace('/', '-').replace('.md', '')
FilePrefix(source_file_path) ==
  Replace(Replace(source_file_path, Slash, Dash), MdExt, Empty)

SourceDiffDictFile(source_file_path) ==
  FilePrefix(source_file_path) \o SourceDiffSuffix

MatchFile(source_file_path) ==
  FilePrefix(source_file_path) \o MatchSuffix

StagingNames ==
  {SourceDiffDictFile(p) : p \in Paths} \cup {MatchFile(p) : p \in Paths}

\* -------------------------------------------------------------- token gate
\* length of the longest prefix of s made of whitespace / of letters
RECURSIVE SpaceRun(_)
SpaceRun(s) == IF s # <<>> /\ IsSpace(Head(s)) THEN 1 + SpaceRun(Tail(s)) ELSE 0
RECURSIVE LetterRun(_)
LetterRun(s) == IF s # <<>> /\ IsLetter(Head(s)) THEN 1 + LetterRun(Tail(s)) ELSE 0

Drop(s, n) == SubSeq(s, n + 1, Len(s))

\* position of the last newline among the first n characters of s, 0 if none
LastNewline(s, n) ==
  LET nl == {i \in 1..n : s[i] = "\n"}
  IN IF nl = {} THEN 0 ELSE CHOOSE i \in nl : \A j \in nl : j <= i

\* tiktoken: enc.encode(text) of the cl100k_base encoding, as the number of
\* pieces its splitting pattern cuts the text into (a word with the one
\* space before it; a whitespace run up to its last newline; the spaces
\* that remain), each short piece being one token.
RECURSIVE EncodeLen(_)
EncodeLen(s) ==
  IF s = <<>> THEN 0
  ELSE IF IsLetter(s[1]) THEN 1 + EncodeLen(Drop(s, LetterRun(s)))
  ELSE IF s[1] = " " /\ Len(s) >= 2 /\ IsLetter(s[2])
       THEN 1 + EncodeLen(Drop(s, 1 + LetterRun(Tail(s))))
  ELSE LET n == SpaceRun(s)
           j == LastNewline(s, n)
       IN IF j > 0 THEN 1 + EncodeLen(Drop(s, j))
          ELSE IF n < Len(s) THEN 1 + EncodeLen(Drop(s, n - 1))
          ELSE 1

\* estimate_tokens(text); tiktoken_ok is whether get_encoding/encode succeed
estimate_tokens(text, tiktoken_ok) ==
  IF text = <<>> THEN 0
  ELSE IF tiktoken_ok THEN EncodeLen(text)
  ELSE Len(text) \div 4

\* A file of temp_output: whether it exists, whether json.load parses it, the
\* parsed value (a sequence of sections or of match records, in the order of
\* the dict), and the run of main() that wrote it: this one or an earlier one.
ThisRun == "this"
EarlierRun == "earlier"
NoFile == [exists |-> FALSE, ok |-> FALSE, data |-> <<>>, run |-> ThisRun]
JsonFile(data, r) == [exists |-> TRUE, ok |-> TRUE, data |-> data, run |-> r]
CorruptFile(r) == [exists |-> TRUE, ok |-> FALSE, data |-> <<>>, run |-> r]

\* the loop of check_source_token_limit: new_content + "\n" of every dict
\* section that has a non-empty new_content
RECURSIVE TotalNewContent(_)
TotalNewContent(source_diff_dict) ==
  IF source_diff_dict = <<>> THEN <<>>
  ELSE LET section_data == Head(source_diff_dict)
       IN (IF section_data.isdict /\ section_data.new_content # <<>>
           THEN section_data.new_content \o <<"\n">>
           ELSE <<>>) \o TotalNewContent(Tail(source_diff_dict))

\* mutant: a cost equal to the limit is denied too
check_source_token_limit_DenyAtLimit(content, token_limit, tiktoken_ok) ==
  IF ~content.exists \/ ~content.ok THEN <<TRUE, 0, 0>>
  ELSE LET total_new_content == TotalNewContent(content.data)
           total_tokens == estimate_tokens(total_new_content, tiktoken_ok)
       IN IF Strip(total_new_content) = <<>> THEN <<TRUE, 0, 0>>
          ELSE IF total_tokens >= token_limit
               THEN <<FALSE, total_tokens, token_limit>>
               ELSE <<TRUE, total_tokens, token_limit>>

\* check_source_token_limit(file, token_limit) on the content of the file:
\* <<within_limit, total_tokens, token_limit>>
check_source_token_limit(content, token_limit, tiktoken_ok) ==
  IF ~content.exists \/ ~content.ok THEN <<TRUE, 0, 0>>
  ELSE LET total_new_content == TotalNewContent(content.data)
           total_tokens == estimate_tokens(total_new_content, tiktoken_ok)
       IN IF Strip(total_new_content) = <<>> THEN <<TRUE, 0, 0>>
          ELSE IF total_tokens > token_limit
               THEN <<FALSE, total_tokens, token_limit>>
               ELSE <<TRUE, total_tokens, token_limit>>

\* ------------------------------------------------------- change-set text
\* A text is handled line by line (split('\n') / '\n'.join); a line is a
\* tuple of characters, "File: " being kept as one element.
FilePrefixText == <<"File: ">>
Dashes == [i \in 1..DashCount |-> "-"]

StartsWith(line, prefix) ==
  Len(line) >= Len(prefix) /\ SubSeq(line, 1, Len(prefix)) = prefix

\* get_pr_diff: for every file of the change request whose name ends in .md
\* and that has a patch: the header, the patch lines, the line of dashes
RECURSIVE get_pr_diff(_)
get_pr_diff(files) ==
  IF files = <<>> THEN <<>>
  ELSE LET file == Head(files)
           n == Len(file.filename)
       IN (IF n >= 3 /\ SubSeq(file.filename, n - 2, n) = MdExt /\ file.patch # <<>>
           THEN <<FilePrefixText \o file.filename>> \o file.patch \o <<Dashes>>
           ELSE <<>>) \o get_pr_diff(Tail(files))

\* the loop of extract_file_diff_from_pr over the lines: the lines kept
RECURSIVE ExtractLines(_, _, _)
ExtractLines(lines, source_file_path, include_section) ==
  IF lines = <<>> THEN <<>>
  ELSE LET line == Head(lines)
           rest == Tail(lines)
       IN IF StartsWith(line, FilePrefixText)
          THEN LET current_file == Strip(Replace(line, FilePrefixText, Empty))
                   inc == (current_file = source_file_path)
               IN (IF inc THEN <<line>> ELSE <<>>)
                  \o ExtractLines(rest, source_file_path, inc)
          ELSE IF StartsWith(line, Dashes)
          THEN (IF include_section THEN <<line>> ELSE <<>>)
               \o ExtractLines(rest, source_file_path, FALSE)
          ELSE (IF include_section THEN <<line>> ELSE <<>>)
               \o ExtractLines(rest, source_file_path, include_section)

extract_file_diff_from_pr(diff, source_file_path) ==
  IF diff = <<>> THEN <<>> ELSE ExtractLines(diff, source_file_path, FALSE)

\* a text given as its lines is the empty string
IsEmptyText(lines) == lines = <<>> \/ lines = <<Empty>>

\* mutant: every modified file is a regular one
determine_file_processing_type_Regular(source_file_path, special_files) ==
  "regular_modified"

\* determine_file_processing_type
determine_file_processing_type(source_file_path, special_files) ==
  IF special_files # {} /\ Basename(source_file_path) \in special_files
  THEN "special_file_toc"
  ELSE "regular_modified"

\* --------------------------------------------------------- image_processor
ImageA == <<"i", ".", "p", "n", "g">>
ImagePaths == {ImageA}
Absent == "absent"

\* download_image_from_source gives the bytes of the image, or None
NoData == "none"
Downloads == [ImagePaths -> {"new", NoData}]

\* process_deleted_images: every listed image that exists is removed
RECURSIVE process_deleted_images(_, _)
process_deleted_images(tree, deleted_images) ==
  IF deleted_images = <<>> THEN tree
  ELSE LET file_path == Head(deleted_images)
       IN process_deleted_images(
            IF tree[file_path] # Absent
            THEN [tree EXCEPT ![file_path] = Absent] ELSE tree,
            Tail(deleted_images))

\* mutant: an image that does not download is written as an empty file
RECURSIVE process_added_images_Truncates(_, _, _)
process_added_images_Truncates(tree, added_images, download) ==
  IF added_images = <<>> THEN tree
  ELSE LET file_path == Head(added_images)
           image_data == download[file_path]
       IN process_added_images_Truncates(
            [tree EXCEPT ![file_path] =
               IF image_data = NoData THEN "empty" ELSE image_data],
            Tail(added_images), download)

\* process_added_images: every listed image that downloads is written
RECURSIVE process_added_images(_, _, _)
process_added_images(tree, added_images, download) ==
  IF added_images = <<>> THEN tree
  ELSE LET file_path == Head(added_images)
           image_data == download[file_path]
       IN process_added_images(
            IF image_data = NoData THEN tree
            ELSE [tree EXCEPT ![file_path] = image_data],
            Tail(added_images), download)

\* mutant: the bytes are appended to an image that is there already
RECURSIVE process_modified_images_Append(_, _, _)
process_modified_images_Append(tree, modified_images, download) ==
  IF modified_images = <<>> THEN tree
  ELSE LET file_path == Head(modified_images)
           image_data == download[file_path]
       IN process_modified_images_Append(
            IF image_data = NoData THEN tree
            ELSE [tree EXCEPT ![file_path] =
                    IF tree[file_path] = Absent THEN image_data
                    ELSE IF tree[file_path] = "appended" THEN "appended twice"
                    ELSE "appended"],
            Tail(modified_images), download)

\* process_modified_images: every listed image that downloads is overwritten
RECURSIVE process_modified_images(_, _, _)
process_modified_images(tree, modified_images, download) ==
  IF modified_images = <<>> THEN tree
  ELSE LET file_path == Head(modified_images)
           image_data == download[file_path]
       IN process_modified_images(
            IF image_data = NoData THEN tree
            ELSE [tree EXCEPT ![file_path] = image_data],
            Tail(modified_images), download)

\* process_all_images: delete first, then add, then modify
process_all_images(tree, added_images, modified_images, deleted_images, download) ==
  process_modified_images(
    process_added_images(
      process_deleted_images(tree, deleted_images), added_images, download),
    modified_images, download)

\* ------------------------------------------------------------------ inputs
\* texts of the sections of a change set
TextA == <<"a">>
TextBig == <<"a", " ", "a", " ", "a", "\n", "a", " ", "a", " ", "a">>
TextT == <<"t">>
TextX == <<"x">>

Section(key, operation, new_content) ==
  [key |-> key, isdict |-> TRUE, operation |-> operation, new_content |-> new_content]

\* source-diff-dict.json of a file with a deleted and a modified section, and
\* of a file with one long added section
DictSmall == <<Section("k1", "deleted", <<>>), Section("k2", "modified", TextA)>>
DictBig == <<Section("k3", "added", TextBig)>>
SourceDiffDicts == {DictSmall, DictBig}

\* what the analysis leaves in temp_output for one modified file
SourceDiffFiles(r) ==
  {NoFile, CorruptFile(r)} \cup {JsonFile(d, r) : d \in SourceDiffDicts}

\* the patch of a file of the change request: none, or one added line
PatchLine == <<"+", "a">>
Patches == {<<>>, <<PatchLine>>}

\* the configured ceiling: the shipped value and a small one
TokenLimits == {2, SOURCE_TOKEN_LIMIT}

\* sequences of distinct paths, at most MaxFiles long
RECURSIVE DistinctSeqs(_, _)
DistinctSeqs(S, n) ==
  IF n = 0 THEN {<<>>}
  ELSE {<<>>} \cup UNION {{<<x>> \o s : s \in DistinctSeqs(S \ {x}, n - 1)} : x \in S}

\* ------------------------------------------------- match and translation data
NoResults == [kind |-> "none", success |-> FALSE, isdict |-> FALSE, sections |-> <<>>]

\* what match_source_diff_to_target makes of a section of the source diff
Unset == [state |-> "unset", text |-> <<>>]
Null == [state |-> "null", text |-> <<>>]
Text(s) == [state |-> "text", text |-> s]

MatchRecord(section) ==
  [key |-> section.key,
   source_operation |-> section.operation,
   has_target_content |-> section.operation # "added",
   target_content |-> IF section.operation # "added" THEN TextT ELSE <<>>,
   target_new_content |-> Unset]

Keys(s) == {s[i].key : i \in DOMAIN s}
KeepKeys(s, K) == SelectSeq(s, LAMBDA r : r.key \in K)

\* the matcher matches any of the sections, in their order, or none
MatchResults(dict) ==
  {KeepKeys([i \in DOMAIN dict |-> MatchRecord(dict[i])], K) : K \in SUBSET Keys(dict)}

\* what process_modified_sections returns: None, [], or a list whose first
\* element is (file_path, success, ai_updated_sections)
TranslationResults(sections) ==
  {NoResults, [NoResults EXCEPT !.kind = "empty"]}
  \cup {[kind |-> "tuple", success |-> FALSE, isdict |-> TRUE, sections |-> <<>>],
        [kind |-> "tuple", success |-> TRUE, isdict |-> FALSE, sections |-> <<>>]}
  \cup {[kind |-> "tuple", success |-> TRUE, isdict |-> TRUE,
         sections |-> [k \in K |-> TextX]] : K \in SUBSET Keys(sections)}

\* mutant: the translations are looked up before the operation
AnnotateRecord_TranslationFirst(section_data, ai_updated_sections) ==
  IF section_data.key \in DOMAIN ai_updated_sections
  THEN [section_data EXCEPT
          !.target_new_content = Text(ai_updated_sections[section_data.key])]
  ELSE IF section_data.source_operation = "deleted"
  THEN [section_data EXCEPT !.target_new_content = Null]
  ELSE [section_data EXCEPT
          !.target_new_content =
             Text(IF section_data.has_target_content
                  THEN section_data.target_content ELSE <<>>)]

\* mutant: a section without a translation is left as it is
AnnotateRecord_LeaveUnset(section_data, ai_updated_sections) ==
  IF section_data.source_operation = "deleted"
  THEN [section_data EXCEPT !.target_new_content = Null]
  ELSE IF section_data.key \in DOMAIN ai_updated_sections
  THEN [section_data EXCEPT
          !.target_new_content = Text(ai_updated_sections[section_data.key])]
  ELSE section_data

\* mutant: the translation takes the place of the existing target_content
AnnotateRecord_OverwritesTargetContent(section_data, ai_updated_sections) ==
  IF section_data.source_operation = "deleted"
  THEN [section_data EXCEPT !.target_new_content = Null]
  ELSE IF section_data.key \in DOMAIN ai_updated_sections
  THEN [section_data EXCEPT
          !.target_new_content = Text(ai_updated_sections[section_data.key]),
          !.target_content = ai_updated_sections[section_data.key]]
  ELSE [section_data EXCEPT
          !.target_new_content =
             Text(IF section_data.has_target_content
                  THEN section_data.target_content ELSE <<>>)]

\* lines 475-487: target_new_content of every record of the match data
AnnotateRecord(section_data, ai_updated_sections) ==
  IF section_data.source_operation = "deleted"
  THEN [section_data EXCEPT !.target_new_content = Null]
  ELSE IF section_data.key \in DOMAIN ai_updated_sections
  THEN [section_data EXCEPT
          !.target_new_content = Text(ai_updated_sections[section_data.key])]
  ELSE [section_data EXCEPT
          !.target_new_content =
             Text(IF section_data.has_target_content
                  THEN section_data.target_content ELSE <<>>)]

Annotate(match_data, ai_updated_sections) ==
  [i \in DOMAIN match_data |-> AnnotateRecord(match_data[i], ai_updated_sections)]

\* ------------------------------------------------------------------- state
VARIABLES
  mpc,               \* position of main()
  token_limit,       \* SOURCE_TOKEN_LIMIT as configured
  temp_kind,         \* temp_output: "absent", "file" or "dir"
  temp,              \* temp_output: file name -> file
  target,            \* target tree: path -> content
  images,            \* target tree: image path -> content
  pr_files,          \* the files of the change request
  pr_diff,           \* the change-set text, a sequence of lines
  modified_sections, \* the modified files, in the order of the dict
  idx,               \* position of the loop over modified_sections
  fpc,               \* position of process_regular_modified_file
  source_diff_dict,  \* its local source_diff_dict
  enhanced_sections, \* its local enhanced_sections
  results,           \* its local results
  returned,          \* path -> what process_regular_modified_file returned
  trace,             \* the steps of the call in progress, in order
  steps,             \* the steps of main() of this run, in order
  target_before,     \* the target tree when the call in progress began
  temp_before,       \* temp_output when the call in progress began
  stale,             \* files of an earlier run that this run has read
  call,              \* a function called on its own: its arguments and result
  console            \* the console, and the threads that write to it

vars == <<mpc, token_limit, temp_kind, temp, target, images, pr_files, pr_diff,
          modified_sections, idx, fpc, source_diff_dict, enhanced_sections,
          results, returned, trace, steps, target_before, temp_before, stale,
          call, console>>

\* main() calls its functions itself and runs on one thread
aux == <<call, console>>
NoCall == [fn |-> "none", done |-> FALSE]
Quiet == [out |-> <<>>]

\* temp_output as an earlier run of main() can leave it: nothing, or for a
\* file of that run its source diff and its match result, saved (a run cut
\* short after line 446) or annotated (after line 491)
LeftoverMatch ==
  {NoFile, JsonFile(<<MatchRecord(DictSmall[2])>>, EarlierRun),
   JsonFile(Annotate(<<MatchRecord(DictSmall[2])>>, <<>>), EarlierRun)}
Leftovers ==
  {[n \in StagingNames |->
      IF n = SourceDiffDictFile(p) THEN JsonFile(DictSmall, EarlierRun)
      ELSE IF n = MatchFile(p) THEN m
      ELSE NoFile] : p \in Paths \ SPECIAL_FILES, m \in LeftoverMatch}

NotReturned == "none"

InitMain ==
  /\ mpc = "clean"
  /\ token_limit \in TokenLimits
  /\ \/ /\ temp_kind \in {"absent", "file"}
        /\ temp = [n \in StagingNames |-> NoFile]
     \/ /\ temp_kind = "dir"
        /\ temp \in Leftovers
  /\ target = [p \in TargetPaths |-> IF p = PathNew THEN "absent" ELSE "orig"]
  /\ images = [i \in ImagePaths |-> "old"]
  /\ pr_files = <<>>
  /\ pr_diff = <<>>
  /\ modified_sections = <<>>
  /\ idx = 0
  /\ fpc = "idle"
  /\ source_diff_dict = <<>>
  /\ enhanced_sections = <<>>
  /\ results = NoResults
  /\ returned = [p \in Paths |-> NotReturned]
  /\ trace = <<>>
  /\ steps = <<>>
  /\ target_before = target
  /\ temp_before = temp
  /\ stale = {}

Init ==
  /\ InitMain
  /\ call = NoCall
  /\ console = Quiet

\* -------------------------------------------------------------------- main
\* the files of a change request: distinct documents, each with its patch
\* (pr.get_files() lists the files in the order of their names)
PathsByName == <<PathToc, PathA_B, PathAB, PathC>>
FileLists ==
  {SelectSeq(PathsByName, LAMBDA p : p \in S) :
     S \in {X \in SUBSET Paths : Cardinality(X) <= MaxFiles}}
PrFiles ==
  UNION {{[i \in 1..Len(s) |-> [filename |-> s[i], patch |-> f[i]]] :
            f \in [1..Len(s) -> Patches]} :
         s \in FileLists}

Range(s) == {s[i] : i \in DOMAIN s}
Filenames(files) == [i \in 1..Len(files) |-> files[i].filename]

\* mutant: a temp_output that is a directory is kept as it is
clean_temp_output_dir_Keep(kind, files) ==
  IF kind = "dir" THEN <<"dir", files>> ELSE <<"dir", [n \in DOMAIN files |-> NoFile]>>

\* clean_temp_output_dir: whatever temp_output was, it is an empty directory
clean_temp_output_dir(kind, files) ==
  <<"dir", [n \in DOMAIN files |-> NoFile]>>

\* line 543
CleanTempOutputDir ==
  /\ mpc = "clean"
  /\ LET c == clean_temp_output_dir(temp_kind, temp)
     IN /\ temp_kind' = c[1]
        /\ temp' = c[2]
  /\ mpc' = "repo_config"
  /\ steps' = Append(steps, "clean")
  /\ UNCHANGED <<images, token_limit, aux, target, pr_files, pr_diff, modified_sections,
                 idx, fpc, source_diff_dict, enhanced_sections, results,
                 returned, trace, target_before, temp_before, stale>>

\* lines 546-553: an unsupported source repository ends the run
GetLocalRepoConfig ==
  /\ mpc = "repo_config"
  /\ \E supported \in BOOLEAN :
       mpc' = IF supported THEN "ai_init" ELSE "done"
  /\ UNCHANGED <<images, token_limit, aux, temp_kind, temp, target, pr_files, pr_diff,
                 modified_sections, idx, fpc, source_diff_dict,
                 enhanced_sections, results, returned, trace, steps,
                 target_before, temp_before, stale>>

\* lines 561-566: a client that cannot be built ends the run
InitAIClient ==
  /\ mpc = "ai_init"
  /\ \E built \in BOOLEAN :
       mpc' = IF built THEN "get_pr_diff" ELSE "done"
  /\ UNCHANGED <<images, token_limit, aux, temp_kind, temp, target, pr_files, pr_diff,
                 modified_sections, idx, fpc, source_diff_dict,
                 enhanced_sections, results, returned, trace, steps,
                 target_before, temp_before, stale>>

\* lines 572-576: no change-set text ends the run
GetPrDiff ==
  /\ mpc = "get_pr_diff"
  /\ \E files \in PrFiles :
       /\ pr_files' = files
       /\ pr_diff' = get_pr_diff(files)
       /\ mpc' = IF IsEmptyText(get_pr_diff(files)) THEN "done" ELSE "analyze"
  /\ UNCHANGED <<images, token_limit, aux, temp_kind, temp, target, modified_sections,
                 idx, fpc, source_diff_dict, enhanced_sections, results,
                 returned, trace, steps, target_before, temp_before, stale>>

\* analyze_source_changes writes <file_prefix>-source-diff-dict.json for the
\* modified files, in order (a later file of the same name replaces an
\* earlier one)
RECURSIVE WriteSourceDiffs(_, _, _, _)
WriteSourceDiffs(files, paths, contents, i) ==
  IF i > Len(paths) THEN files
  ELSE WriteSourceDiffs(
         IF contents[i].exists
         THEN [files EXCEPT ![SourceDiffDictFile(paths[i])] = contents[i]]
         ELSE files,
         paths, contents, i + 1)

\* lines 580-587
AnalyzeSourceChanges ==
  /\ mpc = "analyze"
  /\ modified_sections' = Filenames(pr_files)
  /\ \E contents \in [1..Len(pr_files) -> SourceDiffFiles(ThisRun)] :
       /\ \A i \in 1..Len(pr_files) :
            determine_file_processing_type(pr_files[i].filename, SPECIAL_FILES)
              = "special_file_toc" => contents[i] = NoFile
       /\ temp' = WriteSourceDiffs(temp, Filenames(pr_files), contents, 1)
  /\ mpc' = "deleted"
  /\ UNCHANGED <<images, token_limit, aux, temp_kind, target, pr_files, pr_diff, idx,
                 fpc, source_diff_dict, enhanced_sections, results, returned,
                 trace, steps, target_before, temp_before, stale>>

\* mutant: the deletions are applied after the modified files
ProcessDeletedFiles_Late ==
  /\ \/ /\ mpc = "deleted"
        /\ mpc' = "added"
        /\ UNCHANGED <<target, steps>>
     \/ /\ mpc = "images"
        /\ mpc' = "summary"
        /\ target' = [target EXCEPT ![PathOld] = "absent"]
        /\ steps' = Append(steps, "deleted")
  /\ UNCHANGED <<images, token_limit, aux, temp_kind, temp, pr_files, pr_diff,
                 modified_sections, idx, fpc, source_diff_dict,
                 enhanced_sections, results, returned, trace, target_before,
                 temp_before, stale>>

\* lines 598-602: process_deleted_files removes the deleted documents
ProcessDeletedFiles ==
  /\ mpc = "deleted"
  /\ \E deleted_files \in SUBSET {PathOld} :
       IF deleted_files # {}
       THEN /\ target' = [p \in TargetPaths |->
                            IF p \in deleted_files THEN "absent" ELSE target[p]]
            /\ steps' = Append(steps, "deleted")
       ELSE UNCHANGED <<target, steps>>
  /\ mpc' = "added"
  /\ UNCHANGED <<images, token_limit, aux, temp_kind, temp, pr_files, pr_diff,
                 modified_sections, idx, fpc, source_diff_dict,
                 enhanced_sections, results, returned, trace, target_before, temp_before,
                 stale>>

\* lines 604-608: process_added_files creates the added documents
ProcessAddedFiles ==
  /\ mpc = "added"
  /\ \E added_files \in SUBSET {PathNew} :
       IF added_files # {}
       THEN /\ target' = [p \in TargetPaths |->
                            IF p \in added_files THEN "added" ELSE target[p]]
            /\ steps' = Append(steps, "added")
       ELSE UNCHANGED <<target, steps>>
  /\ mpc' = "toc"
  /\ UNCHANGED <<images, token_limit, aux, temp_kind, temp, pr_files, pr_diff,
                 modified_sections, idx, fpc, source_diff_dict,
                 enhanced_sections, results, returned, trace, target_before, temp_before,
                 stale>>

\* lines 610-614: process_toc_files rewrites the special files
ProcessTocFiles ==
  /\ mpc = "toc"
  /\ \E toc_files \in SUBSET {f \in Range(Filenames(pr_files)) :
                                 Basename(f) \in SPECIAL_FILES} :
       IF toc_files # {}
       THEN /\ target' = [p \in TargetPaths |->
                            IF p \in toc_files THEN "toc" ELSE target[p]]
            /\ steps' = Append(steps, "toc")
       ELSE UNCHANGED <<target, steps>>
  /\ mpc' = "modified"
  /\ idx' = 1
  /\ UNCHANGED <<images, token_limit, aux, temp_kind, temp, pr_files, pr_diff,
                 modified_sections, fpc, source_diff_dict, enhanced_sections,
                 results, returned, trace, target_before, temp_before, stale>>

\* ------------------------------------------- process_regular_modified_file
CurrentFile == modified_sections[idx]
InLoop == mpc = "modified" /\ idx <= Len(modified_sections)

\* a return of process_regular_modified_file: the locals are gone
Return(value) ==
  /\ returned' = [returned EXCEPT ![CurrentFile] = value]
  /\ fpc' = "returned"
  /\ source_diff_dict' = <<>>
  /\ enhanced_sections' = <<>>
  /\ results' = NoResults

\* lines 621-630: a file with no block in the change-set text is passed over
LoopSkipNoDiff ==
  /\ InLoop /\ fpc = "idle"
  /\ IsEmptyText(extract_file_diff_from_pr(pr_diff, CurrentFile))
  /\ idx' = idx + 1
  /\ UNCHANGED <<images, mpc, token_limit, aux, temp_kind, temp, target, pr_files,
                 pr_diff, modified_sections, fpc, source_diff_dict,
                 enhanced_sections, results, returned, trace, steps,
                 target_before, temp_before, stale>>

\* lines 635-641: a special file is passed over
LoopSkipSpecial ==
  /\ InLoop /\ fpc = "idle"
  /\ ~IsEmptyText(extract_file_diff_from_pr(pr_diff, CurrentFile))
  /\ determine_file_processing_type(CurrentFile, SPECIAL_FILES) = "special_file_toc"
  /\ idx' = idx + 1
  /\ UNCHANGED <<images, mpc, token_limit, aux, temp_kind, temp, target, pr_files,
                 pr_diff, modified_sections, fpc, source_diff_dict,
                 enhanced_sections, results, returned, trace, steps,
                 target_before, temp_before, stale>>

\* lines 643-654: process_regular_modified_file is called
LoopCall ==
  /\ InLoop /\ fpc = "idle"
  /\ ~IsEmptyText(extract_file_diff_from_pr(pr_diff, CurrentFile))
  /\ determine_file_processing_type(CurrentFile, SPECIAL_FILES) = "regular_modified"
  /\ fpc' = "load"
  /\ trace' = <<>>
  /\ target_before' = target
  /\ temp_before' = temp
  /\ steps' = Append(steps, "modified")
  /\ UNCHANGED <<images, mpc, token_limit, aux, temp_kind, temp, target, pr_files,
                 pr_diff, modified_sections, idx, source_diff_dict,
                 enhanced_sections, results, returned, stale>>

\* lines 656-659: the result is printed and the loop goes on
LoopAfterCall ==
  /\ InLoop /\ fpc = "returned"
  /\ fpc' = "idle"
  /\ idx' = idx + 1
  /\ trace' = <<>>
  /\ target_before' = target
  /\ temp_before' = temp
  /\ UNCHANGED <<images, mpc, token_limit, aux, temp_kind, temp, target, pr_files,
                 pr_diff, modified_sections, source_diff_dict,
                 enhanced_sections, results, returned, steps, stale>>

\* mutant: the denial of the gate is printed but the file is processed
PrmfLoadAndGate_IgnoreDeny ==
  /\ InLoop /\ fpc = "load"
  /\ LET file == temp[SourceDiffDictFile(CurrentFile)]
     IN /\ stale' = IF file.exists /\ file.run # ThisRun
                    THEN stale \cup {SourceDiffDictFile(CurrentFile)} ELSE stale
        /\ IF ~file.exists
           THEN /\ trace' = Append(trace, "no_source_diff")
                /\ Return("False")
           ELSE IF ~file.ok
           THEN /\ trace' = Append(trace, "raise")
                /\ Return("False")
           ELSE \E tiktoken_ok \in BOOLEAN :
                  IF ~check_source_token_limit(file, token_limit, tiktoken_ok)[1]
                  THEN /\ trace' = trace \o <<"load", "gate_deny">>
                       /\ source_diff_dict' = file.data
                       /\ fpc' = "fetch"
                       /\ UNCHANGED <<enhanced_sections, results, returned>>
                  ELSE /\ trace' = trace \o <<"load", "gate_allow">>
                       /\ source_diff_dict' = file.data
                       /\ fpc' = "fetch"
                       /\ UNCHANGED <<enhanced_sections, results, returned>>
  /\ UNCHANGED <<images, mpc, token_limit, aux, temp_kind, temp, target, pr_files,
                 pr_diff, modified_sections, idx, steps, target_before, temp_before>>

\* mutant: a source diff that is missing or unparsable is taken as empty
PrmfLoadAndGate_UnreadableProceeds ==
  /\ InLoop /\ fpc = "load"
  /\ LET file == temp[SourceDiffDictFile(CurrentFile)]
     IN /\ stale' = IF file.exists /\ file.run # ThisRun
                    THEN stale \cup {SourceDiffDictFile(CurrentFile)} ELSE stale
        /\ IF ~file.exists \/ ~file.ok
           THEN /\ trace' = Append(trace, IF file.exists THEN "raise" ELSE "no_source_diff")
                /\ source_diff_dict' = <<>>
                /\ fpc' = "fetch"
                /\ UNCHANGED <<enhanced_sections, results, returned>>
           ELSE \E tiktoken_ok \in BOOLEAN :
                  IF ~check_source_token_limit(file, token_limit, tiktoken_ok)[1]
                  THEN /\ trace' = trace \o <<"load", "gate_deny">>
                       /\ Return("False")
                  ELSE /\ trace' = trace \o <<"load", "gate_allow">>
                       /\ source_diff_dict' = file.data
                       /\ fpc' = "fetch"
                       /\ UNCHANGED <<enhanced_sections, results, returned>>
  /\ UNCHANGED <<images, mpc, token_limit, aux, temp_kind, temp, target, pr_files,
                 pr_diff, modified_sections, idx, steps, target_before, temp_before>>

\* lines 392-412: the source diff is loaded and the token gate consulted
PrmfLoadAndGate ==
  /\ InLoop /\ fpc = "load"
  /\ LET file == temp[SourceDiffDictFile(CurrentFile)]
     IN /\ stale' = IF file.exists /\ file.run # ThisRun
                    THEN stale \cup {SourceDiffDictFile(CurrentFile)} ELSE stale
        /\ IF ~file.exists
           THEN /\ trace' = Append(trace, "no_source_diff")
                /\ Return("False")
           ELSE IF ~file.ok
           THEN /\ trace' = Append(trace, "raise")
                /\ Return("False")
           ELSE \E tiktoken_ok \in BOOLEAN :
                  IF ~check_source_token_limit(file, token_limit, tiktoken_ok)[1]
                  THEN /\ trace' = trace \o <<"load", "gate_deny">>
                       /\ Return("False")
                  ELSE /\ trace' = trace \o <<"load", "gate_allow">>
                       /\ source_diff_dict' = file.data
                       /\ fpc' = "fetch"
                       /\ UNCHANGED <<enhanced_sections, results, returned>>
  /\ UNCHANGED <<images, mpc, token_limit, aux, temp_kind, temp, target, pr_files,
                 pr_diff, modified_sections, idx, steps, target_before, temp_before>>

\* mutant: an exception of the target fetch leaves the call and ends main
PrmfFetchTarget_Propagates ==
  /\ InLoop /\ fpc = "fetch"
  /\ \E outcome \in {"ok", "nothing", "raise"} :
       IF outcome = "ok"
       THEN /\ trace' = Append(trace, "fetch")
            /\ fpc' = "match"
            /\ UNCHANGED <<mpc, source_diff_dict, enhanced_sections, results, returned>>
       ELSE IF outcome = "nothing"
       THEN /\ trace' = Append(trace, "no_target")
            /\ Return("False")
            /\ UNCHANGED mpc
       ELSE /\ trace' = Append(trace, "raise")
            /\ mpc' = "done"
            /\ UNCHANGED <<fpc, source_diff_dict, enhanced_sections, results, returned>>
  /\ UNCHANGED <<images, token_limit, aux, temp_kind, temp, target, pr_files,
                 pr_diff, modified_sections, idx, steps, target_before, temp_before, stale>>

\* lines 414-420: get_target_hierarchy_and_content
PrmfFetchTarget ==
  /\ InLoop /\ fpc = "fetch"
  /\ \E outcome \in {"ok", "nothing", "raise"} :
       IF outcome = "ok"
       THEN /\ trace' = Append(trace, "fetch")
            /\ fpc' = "match"
            /\ UNCHANGED <<source_diff_dict, enhanced_sections, results, returned>>
       ELSE /\ trace' = Append(trace, IF outcome = "raise" THEN "raise" ELSE "no_target")
            /\ Return("False")
  /\ UNCHANGED <<images, mpc, token_limit, aux, temp_kind, temp, target, pr_files,
                 pr_diff, modified_sections, idx, steps, target_before, temp_before, stale>>

\* mutant: an empty match result goes on to the next stages
PrmfMatch_EmptyProceeds ==
  /\ InLoop /\ fpc = "match"
  /\ \/ \E sections \in MatchResults(source_diff_dict) :
          /\ trace' = Append(trace, IF sections = <<>> THEN "no_match" ELSE "match")
          /\ enhanced_sections' = sections
          /\ fpc' = "save_match"
          /\ UNCHANGED <<source_diff_dict, results, returned>>
     \/ /\ trace' = Append(trace, "raise")
        /\ Return("False")
  /\ UNCHANGED <<images, mpc, token_limit, aux, temp_kind, temp, target, pr_files,
                 pr_diff, modified_sections, idx, steps, target_before, temp_before, stale>>

\* lines 424-438: match_source_diff_to_target
PrmfMatch ==
  /\ InLoop /\ fpc = "match"
  /\ \/ \E sections \in MatchResults(source_diff_dict) :
          IF sections = <<>>
          THEN /\ trace' = Append(trace, "no_match")
               /\ Return("False")
          ELSE /\ trace' = Append(trace, "match")
               /\ enhanced_sections' = sections
               /\ fpc' = "save_match"
               /\ UNCHANGED <<source_diff_dict, results, returned>>
     \/ /\ trace' = Append(trace, "raise")
        /\ Return("False")
  /\ UNCHANGED <<images, mpc, token_limit, aux, temp_kind, temp, target, pr_files,
                 pr_diff, modified_sections, idx, steps, target_before, temp_before, stale>>

\* mutant: a match file that is there already is kept
PrmfSaveMatch_ReuseExisting ==
  /\ InLoop /\ fpc = "save_match"
  /\ temp' = IF temp[MatchFile(CurrentFile)].exists THEN temp
              ELSE [temp EXCEPT ![MatchFile(CurrentFile)] = JsonFile(enhanced_sections, ThisRun)]
  /\ trace' = Append(trace, "save_match")
  /\ fpc' = "translate"
  /\ UNCHANGED <<images, mpc, token_limit, aux, temp_kind, target, pr_files, pr_diff,
                 modified_sections, idx, source_diff_dict, enhanced_sections,
                 results, returned, steps, target_before, temp_before, stale>>

\* lines 442-446: the match result is saved
PrmfSaveMatch ==
  /\ InLoop /\ fpc = "save_match"
  /\ temp' = [temp EXCEPT ![MatchFile(CurrentFile)] = JsonFile(enhanced_sections, ThisRun)]
  /\ trace' = Append(trace, "save_match")
  /\ fpc' = "translate"
  /\ UNCHANGED <<images, mpc, token_limit, aux, temp_kind, target, pr_files, pr_diff,
                 modified_sections, idx, source_diff_dict, enhanced_sections,
                 results, returned, steps, target_before, temp_before, stale>>

\* mutant: the translations are written to the target as they arrive
PrmfTranslate_WritesTarget ==
  /\ InLoop /\ fpc = "translate"
  /\ \/ \E r \in TranslationResults(enhanced_sections) :
          /\ trace' = Append(trace, "translate")
          /\ results' = r
          /\ target' = [target EXCEPT ![CurrentFile] = "merged"]
          /\ fpc' = "annotate"
          /\ UNCHANGED <<source_diff_dict, enhanced_sections, returned>>
     \/ /\ trace' = Append(trace, "raise")
        /\ Return("False")
        /\ UNCHANGED target
  /\ UNCHANGED <<images, mpc, token_limit, aux, temp_kind, temp, pr_files,
                 pr_diff, modified_sections, idx, steps, target_before, temp_before, stale>>

\* lines 448-461: process_modified_sections
PrmfTranslate ==
  /\ InLoop /\ fpc = "translate"
  /\ \/ \E r \in TranslationResults(enhanced_sections) :
          /\ trace' = Append(trace, "translate")
          /\ results' = r
          /\ fpc' = "annotate"
          /\ UNCHANGED <<source_diff_dict, enhanced_sections, returned>>
     \/ /\ trace' = Append(trace, "raise")
        /\ Return("False")
  /\ UNCHANGED <<images, mpc, token_limit, aux, temp_kind, temp, target, pr_files,
                 pr_diff, modified_sections, idx, steps, target_before, temp_before, stale>>

\* mutant: the annotated match data is not saved
PrmfAnnotate_NoSave ==
  /\ InLoop /\ fpc = "annotate"
  /\ LET file == temp[MatchFile(CurrentFile)]
     IN IF results.kind # "tuple"
        THEN /\ trace' = Append(trace, "no_results")
             /\ Return("False")
             /\ UNCHANGED <<temp, stale>>
        ELSE IF ~(results.success /\ results.isdict)
        THEN /\ trace' = Append(trace, "translation_failed")
             /\ Return("False")
             /\ UNCHANGED <<temp, stale>>
        ELSE IF ~(file.exists /\ file.ok)
        THEN /\ trace' = Append(trace, "raise")
             /\ Return("False")
             /\ UNCHANGED <<temp, stale>>
        ELSE /\ temp' = temp
             /\ stale' = IF file.run # ThisRun
                         THEN stale \cup {MatchFile(CurrentFile)} ELSE stale
             /\ trace' = Append(trace, "annotate")
             /\ fpc' = "update"
             /\ UNCHANGED <<source_diff_dict, enhanced_sections, results, returned>>
  /\ UNCHANGED <<images, mpc, token_limit, aux, temp_kind, target, pr_files, pr_diff,
                 modified_sections, idx, steps, target_before, temp_before>>

\* mutant: a failed translation is annotated and merged like a good one
PrmfAnnotate_AnnotatesFailure ==
  /\ InLoop /\ fpc = "annotate"
  /\ LET file == temp[MatchFile(CurrentFile)]
     IN IF results.kind # "tuple"
        THEN /\ trace' = Append(trace, "no_results")
             /\ Return("False")
             /\ UNCHANGED <<temp, stale>>
        ELSE IF ~(file.exists /\ file.ok)
        THEN /\ trace' = Append(trace, "raise")
             /\ Return("False")
             /\ UNCHANGED <<temp, stale>>
        ELSE /\ temp' = [temp EXCEPT ![MatchFile(CurrentFile)] =
                           JsonFile(Annotate(file.data, results.sections), ThisRun)]
             /\ stale' = IF file.run # ThisRun
                         THEN stale \cup {MatchFile(CurrentFile)} ELSE stale
             /\ trace' = Append(trace, IF results.success /\ results.isdict
                                       THEN "annotate" ELSE "translation_failed")
             /\ fpc' = "update"
             /\ UNCHANGED <<source_diff_dict, enhanced_sections, results, returned>>
  /\ UNCHANGED <<images, mpc, token_limit, aux, temp_kind, target, pr_files, pr_diff,
                 modified_sections, idx, steps, target_before, temp_before>>

\* lines 463-493, 507-512: the match file is read, annotated and saved
PrmfAnnotate ==
  /\ InLoop /\ fpc = "annotate"
  /\ LET file == temp[MatchFile(CurrentFile)]
     IN IF results.kind # "tuple"
        THEN /\ trace' = Append(trace, "no_results")
             /\ Return("False")
             /\ UNCHANGED <<temp, stale>>
        ELSE IF ~(results.success /\ results.isdict)
        THEN /\ trace' = Append(trace, "translation_failed")
             /\ Return("False")
             /\ UNCHANGED <<temp, stale>>
        ELSE IF ~(file.exists /\ file.ok)
        THEN /\ trace' = Append(trace, "raise")
             /\ Return("False")
             /\ UNCHANGED <<temp, stale>>
        ELSE /\ temp' = [temp EXCEPT ![MatchFile(CurrentFile)] =
                           JsonFile(Annotate(file.data, results.sections), ThisRun)]
             /\ stale' = IF file.run # ThisRun
                         THEN stale \cup {MatchFile(CurrentFile)} ELSE stale
             /\ trace' = Append(trace, "annotate")
             /\ fpc' = "update"
             /\ UNCHANGED <<source_diff_dict, enhanced_sections, results, returned>>
  /\ UNCHANGED <<images, mpc, token_limit, aux, temp_kind, target, pr_files, pr_diff,
                 modified_sections, idx, steps, target_before, temp_before>>

\* lines 495-505: update_target_document_from_match_data writes the document
PrmfUpdateTarget ==
  /\ InLoop /\ fpc = "update"
  /\ \E outcome \in {"ok", "failed", "raise"} :
       IF outcome = "ok"
       THEN /\ target' = [target EXCEPT ![CurrentFile] = "merged"]
            /\ trace' = Append(trace, "write")
            /\ Return("True")
       ELSE /\ trace' = Append(trace, IF outcome = "raise" THEN "raise" ELSE "write_failed")
            /\ Return("False")
            /\ UNCHANGED target
  /\ UNCHANGED <<images, mpc, token_limit, aux, temp_kind, temp, pr_files, pr_diff,
                 modified_sections, idx, steps, target_before, temp_before, stale>>

\* lines 617, 664: the loop over the modified files is over
LoopExit ==
  /\ mpc = "modified" /\ idx > Len(modified_sections) /\ fpc = "idle"
  /\ mpc' = "images"
  /\ UNCHANGED <<images, token_limit, aux, temp_kind, temp, target, pr_files, pr_diff,
                 modified_sections, idx, fpc, source_diff_dict,
                 enhanced_sections, results, returned, trace, steps,
                 target_before, temp_before, stale>>

\* lines 664-668: process_all_images, when there is an image to process
ProcessImages ==
  /\ mpc = "images"
  /\ \E added_images \in DistinctSeqs(ImagePaths, 1),
        modified_images \in DistinctSeqs(ImagePaths, 1),
        deleted_images \in DistinctSeqs(ImagePaths, 1),
        download \in Downloads :
       images' = IF added_images # <<>> \/ modified_images # <<>> \/ deleted_images # <<>>
                 THEN process_all_images(images, added_images, modified_images,
                                         deleted_images, download)
                 ELSE images
  /\ mpc' = "summary"
  /\ UNCHANGED <<token_limit, aux, temp_kind, temp, target, pr_files, pr_diff,
                 modified_sections, idx, fpc, source_diff_dict,
                 enhanced_sections, results, returned, trace, steps,
                 target_before, temp_before, stale>>

\* lines 670-681: the final summary
FinalSummary ==
  /\ mpc = "summary"
  /\ steps' = Append(steps, "summary")
  /\ mpc' = "done"
  /\ UNCHANGED <<images, token_limit, aux, temp_kind, temp, target, pr_files, pr_diff,
                 modified_sections, idx, fpc, source_diff_dict,
                 enhanced_sections, results, returned, trace, target_before, temp_before,
                 stale>>

Next ==
  \/ CleanTempOutputDir
  \/ GetLocalRepoConfig
  \/ InitAIClient
  \/ GetPrDiff
  \/ AnalyzeSourceChanges
  \/ ProcessDeletedFiles
  \/ ProcessAddedFiles
  \/ ProcessTocFiles
  \/ LoopSkipNoDiff
  \/ LoopSkipSpecial
  \/ LoopCall
  \/ LoopAfterCall
  \/ PrmfLoadAndGate
  \/ PrmfFetchTarget
  \/ PrmfMatch
  \/ PrmfSaveMatch
  \/ PrmfTranslate
  \/ PrmfAnnotate
  \/ PrmfUpdateTarget
  \/ LoopExit
  \/ ProcessImages
  \/ FinalSummary

Spec == Init /\ [][Next]_vars

\* main() runs on one thread from its first line to a return: a step that
\* can be taken is taken
LiveSpec == Spec /\ WF_vars(Next)

\* ------------------------------------------------------------- properties
Last(s) == s[Len(s)]
InCall == InLoop /\ fpc # "idle"
FullPipeline ==
  <<"load", "gate_allow", "fetch", "match", "save_match", "translate", "annotate">>

\* every outcome of the gate for this file is a denial
GateMustDeny(file) ==
  /\ file.exists /\ file.ok
  /\ \A tiktoken_ok \in BOOLEAN :
       ~check_source_token_limit(file, token_limit, tiktoken_ok)[1]

\* C1: when the token gate denies a file, process_regular_modified_file
\* returns False after the load and the gate alone: no target fetch, no
\* match, no translation, no match file, and temp_output and the target
\* tree are what they were when the call began.
C1_GateDenySkipsFile ==
  (InCall /\ fpc # "load"
     /\ (GateMustDeny(temp_before[SourceDiffDictFile(CurrentFile)])
         \/ "gate_deny" \in Range(trace)))
  => /\ fpc = "returned"
     /\ returned[CurrentFile] = "False"
     /\ trace = <<"load", "gate_deny">>
     /\ target = target_before
     /\ temp = temp_before

C1_Witness ==
  /\ InCall /\ fpc = "returned"
  /\ trace = <<"load", "gate_deny">>
  /\ GateMustDeny(temp[SourceDiffDictFile(CurrentFile)])
  /\ idx = 2 /\ returned[modified_sections[1]] = "True"

\* C2: in every run of main the file-level deletions come before the
\* file-level additions, and the additions before the first modified file.
Rank(step) ==
  IF step = "deleted" THEN 1
  ELSE IF step = "added" THEN 2
  ELSE IF step = "modified" THEN 3
  ELSE 0

C2_DeletedAddedModifiedOrder ==
  /\ \A i, j \in DOMAIN steps :
       (i < j /\ Rank(steps[i]) > 0 /\ Rank(steps[j]) > 0)
         => Rank(steps[i]) <= Rank(steps[j])
  /\ InCall => mpc = "modified"
  /\ (target[PathOld] = "absent") = ("deleted" \in Range(steps))
  /\ (target[PathNew] = "added") = ("added" \in Range(steps))

C2_Witness ==
  /\ mpc = "done"
  /\ \E i \in DOMAIN steps :
       /\ i + 3 \in DOMAIN steps
       /\ steps[i] = "deleted" /\ steps[i + 1] = "added"
       /\ steps[i + 2] = "modified" /\ steps[i + 3] = "modified"

\* C3: for a modified file the target document is written at most once, as
\* the last step of the call, after the gate, the match, the translation
\* and the annotation; until then the target tree is what it was.
C3_TargetWrittenLast ==
  InCall =>
    /\ \A i \in DOMAIN trace :
         trace[i] = "write" => (i = Len(trace) /\ trace = Append(FullPipeline, "write"))
    /\ IF trace # <<>> /\ Last(trace) = "write"
       THEN /\ fpc = "returned"
            /\ \A p \in TargetPaths \ {CurrentFile} : target[p] = target_before[p]
       ELSE target = target_before

C3_Witness ==
  /\ InCall /\ fpc = "returned"
  /\ trace = Append(FullPipeline, "write")
  /\ target[CurrentFile] = "merged" /\ target_before[CurrentFile] = "orig"

MatchData == temp[MatchFile(CurrentFile)].data
Annotated == InCall /\ "annotate" \in Range(trace)

\* C4: after the annotation step every match record of a deleted section
\* has target_new_content = null, also when the translations hold its key.
C4_DeletedIsNull ==
  /\ Annotated =>
       \A i \in DOMAIN MatchData :
         MatchData[i].source_operation = "deleted"
           => MatchData[i].target_new_content = Null
  /\ \A n \in StagingNames : \A i \in DOMAIN temp[n].data :
       ("source_operation" \in DOMAIN temp[n].data[i]
          /\ temp[n].data[i].source_operation = "deleted")
         => temp[n].data[i].target_new_content.state \in {"unset", "null"}

C4_Witness ==
  /\ Annotated /\ fpc = "update"
  /\ \E i \in DOMAIN MatchData :
       /\ MatchData[i].source_operation = "deleted"
       /\ MatchData[i].key \in DOMAIN results.sections
       /\ MatchData[i].target_new_content = Null

\* the records of the annotated match file that the translations leave out
Untranslated ==
  {i \in DOMAIN MatchData :
     /\ MatchData[i].source_operation \in {"added", "modified"}
     /\ MatchData[i].key \notin DOMAIN results.sections}

\* C5 as stated: an added or modified record without a translation has
\* target_new_content unset (null) after the annotation step.
C5_UntranslatedLeftUnset ==
  (Annotated /\ fpc = "update") =>
    \A i \in Untranslated :
      MatchData[i].target_new_content.state \in {"unset", "null"}

\* C5 as amended: an added or modified record without a translation gets the
\* record's existing target_content as target_new_content, the empty string
\* when the record has no target_content.
C5_UntranslatedKeepsTargetContent ==
  (Annotated /\ fpc = "update") =>
    \A i \in Untranslated :
      MatchData[i].target_new_content =
        Text(IF MatchData[i].has_target_content
             THEN MatchData[i].target_content ELSE <<>>)

C5_Witness ==
  /\ Annotated /\ fpc = "update"
  /\ \E i \in Untranslated : MatchData[i].target_new_content = Text(TextT)

\* the modified files that main hands to process_regular_modified_file
Attempted(p) ==
  /\ ~IsEmptyText(extract_file_diff_from_pr(pr_diff, p))
  /\ determine_file_processing_type(p, SPECIAL_FILES) = "regular_modified"

\* C6: a file that fails at any stage makes process_regular_modified_file
\* return False (True only after the target was written), no exception
\* leaves the call, and main goes on to every remaining modified file.
C6_FailureSkipsOnlyThatFile ==
  /\ (InCall /\ fpc = "returned") =>
       returned[CurrentFile] =
         (IF trace = Append(FullPipeline, "write") THEN "True" ELSE "False")
  /\ \A i \in DOMAIN modified_sections :
       (Attempted(modified_sections[i])
          /\ (mpc \in {"images", "summary", "done"} \/ (mpc = "modified" /\ i < idx)))
         => returned[modified_sections[i]] # NotReturned

C6_Witness ==
  /\ mpc = "done" /\ Len(modified_sections) = 2
  /\ returned[modified_sections[1]] = "False"
  /\ returned[modified_sections[2]] = "True"

EarlierFiles(files) == {n \in DOMAIN files : files[n].exists /\ files[n].run = EarlierRun}

C8_StagingEmptiedAtStart ==
  /\ mpc = "clean" => steps = <<>>
  /\ mpc # "clean" =>
       /\ steps # <<>> /\ steps[1] = "clean"
       /\ temp_kind = "dir"
       /\ EarlierFiles(temp) = {}
  /\ mpc \in {"repo_config", "ai_init", "get_pr_diff", "analyze"} =>
       \A n \in StagingNames : ~temp[n].exists

C8_Witness ==
  /\ mpc = "repo_config"
  /\ EarlierFiles(temp_before) # {}
  /\ \A n \in StagingNames : ~temp[n].exists

Before(a, b) ==
  \A j \in DOMAIN trace :
    trace[j] = b => \E i \in 1..(j - 1) : trace[i] = a

\* C9: the match result is in temp_output before the translation is called,
\* and the annotated match result is in temp_output before the target
\* document is updated.
C9_ArtifactSavedBeforeNextStage ==
  InCall =>
    /\ Before("save_match", "translate")
    /\ fpc = "translate" =>
         temp[MatchFile(CurrentFile)] = JsonFile(enhanced_sections, ThisRun)
    /\ Before("annotate", "write") /\ Before("annotate", "write_failed")
    /\ fpc = "update" =>
         /\ temp[MatchFile(CurrentFile)] =
              JsonFile(Annotate(enhanced_sections, results.sections), ThisRun)
         /\ \A i \in DOMAIN MatchData : MatchData[i].target_new_content # Unset

C9_Witness ==
  /\ InCall /\ fpc = "returned" /\ Last(trace) = "write"
  /\ temp[MatchFile(CurrentFile)].exists
  /\ \A i \in DOMAIN MatchData : MatchData[i].target_new_content # Unset

\* C10: two distinct source paths of a run never have the same source-diff
\* file name or the same match file name.
C10_ArtifactNamesUnique ==
  \A p, q \in Range(modified_sections) :
    p # q => /\ SourceDiffDictFile(p) # SourceDiffDictFile(q)
             /\ MatchFile(p) # MatchFile(q)


\* ============================================ the functions on their own
\* the variables of main(), which a function called on its own leaves alone
mainvars == <<mpc, token_limit, temp_kind, temp, target, images, pr_files,
              pr_diff, modified_sections, idx, fpc, source_diff_dict,
              enhanced_sections, results, returned, trace, steps,
              target_before, temp_before, stale>>

\* ---- inputs of check_source_token_limit and estimate_tokens
MaxSections == 2
WordLen == 11

\* a word of n letters
Word(n) == [i \in 1..n |-> "a"]

\* new_content values: none, blank, short, with a space inside, a long word
GateTexts ==
  {<<>>, <<" ">>, TextA, <<"a", "a">>, <<"a", " ", "a">>, <<" ", "a">>,
   Word(WordLen)}
GateKeys == <<"k1", "k2", "k3">>

\* source-diff dicts of up to MaxSections sections, keyed in one of two ways
GateDicts ==
  UNION {{[i \in 1..n |-> Section(GateKeys[((i + shift - 1) % Len(GateKeys)) + 1],
                                  "modified", c[i])] :
            c \in [1..n -> GateTexts], shift \in {0, 1}} :
         n \in 0..MaxSections}

GateFiles == {NoFile, CorruptFile(ThisRun)} \cup {JsonFile(d, ThisRun) : d \in GateDicts}

GateCalls ==
  {[fn |-> "check_source_token_limit", content |-> f, token_limit |-> l,
    tiktoken_ok |-> ok, done |-> FALSE, result |-> <<>>] :
     f \in GateFiles, l \in TokenLimits, ok \in BOOLEAN}

EstimateTexts == GateTexts \cup {TextBig, Word(WordLen) \o <<"\n">>}
EstimateCalls ==
  {[fn |-> "estimate_tokens", text |-> x, tiktoken_ok |-> ok,
    done |-> FALSE, result |-> 0] :
     x \in EstimateTexts, ok \in BOOLEAN}

\* check_source_token_limit(source_diff_dict_file, token_limit) is called
CallCheckSourceTokenLimit ==
  /\ call.fn = "check_source_token_limit" /\ ~call.done
  /\ call' = [call EXCEPT
                !.done = TRUE,
                !.result = check_source_token_limit(call.content, call.token_limit,
                                                    call.tiktoken_ok)]
  /\ UNCHANGED <<mainvars, console>>

\* estimate_tokens(text) is called
CallEstimateTokens ==
  /\ call.fn = "estimate_tokens" /\ ~call.done
  /\ call' = [call EXCEPT !.done = TRUE,
                          !.result = estimate_tokens(call.text, call.tiktoken_ok)]
  /\ UNCHANGED <<mainvars, console>>


\* ---- UnifiedAIClient.chat_completion
\* what the translation service answers: the request raises, or a response
\* comes whose content (message.content / response.text) is None or a text
ServiceRaises == [kind |-> "raise", isnone |-> FALSE, content |-> <<>>]
ServiceNone == [kind |-> "response", isnone |-> TRUE, content |-> <<>>]
ServiceText(s) == [kind |-> "response", isnone |-> FALSE, content |-> s]
ServiceAnswers ==
  {ServiceRaises, ServiceNone}
  \cup {ServiceText(s) : s \in {<<>>, <<" ">>, TextT, <<" ", "t", "\n">>}}

Providers == {"deepseek", "gemini"}

\* the text of line 183
NoResponseFromGemini ==
  <<"N", "o", " ", "r", "e", "s", "p", "o", "n", "s", "e", " ",
    "f", "r", "o", "m", " ", "G", "e", "m", "i", "n", "i">>

Raised == [kind |-> "raise", text |-> <<>>]
Returned(s) == [kind |-> "return", text |-> s]

\* chat_completion(messages): what it returns, or that it raises
chat_completion(provider, answer) ==
  IF provider = "deepseek"
  THEN IF answer.kind = "raise" \/ answer.isnone THEN Raised
       ELSE Returned(Strip(answer.content))
  ELSE IF answer.kind = "raise" THEN Raised
       ELSE IF ~answer.isnone /\ answer.content # <<>>
            THEN Returned(Strip(answer.content))
            ELSE Returned(NoResponseFromGemini)

ChatCalls ==
  {[fn |-> "chat_completion", provider |-> p, answer |-> a,
    done |-> FALSE, result |-> Raised] :
     p \in Providers, a \in ServiceAnswers}

\* chat_completion(messages) is called
CallChatCompletion ==
  /\ call.fn = "chat_completion" /\ ~call.done
  /\ call' = [call EXCEPT !.done = TRUE,
                          !.result = chat_completion(call.provider, call.answer)]
  /\ UNCHANGED <<mainvars, console>>

\* ---- extract_file_diff_from_pr on a text that get_pr_diff assembled
\* a patch line that removes a line of DashCount - 1 dashes: "-" and the line
RemovedRule == <<"-">> \o [i \in 1..(DashCount - 1) |-> "-"]

\* patches of up to MaxPatchLines lines: added lines and removed rules
MaxPatchLines == 2
ExtractPatches ==
  UNION {[1..n -> {PatchLine, RemovedRule}] : n \in 0..MaxPatchLines}

ExtractFileLists ==
  {SelectSeq(<<PathAB, PathC>>, LAMBDA f : f \in S) : S \in SUBSET {PathAB, PathC}}
ExtractFiles ==
  UNION {{[i \in 1..Len(s) |-> [filename |-> s[i], patch |-> f[i]]] :
            f \in [1..Len(s) -> ExtractPatches]} :
         s \in ExtractFileLists}

ExtractCalls ==
  {[fn |-> "extract_file_diff_from_pr", files |-> fs, path |-> q,
    done |-> FALSE, result |-> <<>>] :
     fs \in ExtractFiles, q \in {PathAB, PathC}}

\* extract_file_diff_from_pr(get_pr_diff(...), source_file_path) is called
CallExtractFileDiff ==
  /\ call.fn = "extract_file_diff_from_pr" /\ ~call.done
  /\ call' = [call EXCEPT
                !.done = TRUE,
                !.result = extract_file_diff_from_pr(get_pr_diff(call.files),
                                                     call.path)]
  /\ UNCHANGED <<mainvars, console>>

\* ---- the functions, each called once on inputs of its own
FnInit ==
  /\ InitMain
  /\ token_limit = SOURCE_TOKEN_LIMIT
  /\ temp_kind = "absent"
  /\ call \in GateCalls \cup EstimateCalls \cup ChatCalls \cup ExtractCalls
  /\ console = Quiet

FnNext ==
  \/ CallCheckSourceTokenLimit
  \/ CallEstimateTokens
  \/ CallChatCompletion
  \/ CallExtractFileDiff

FnSpec == FnInit /\ [][FnNext]_vars


\* ------------------------------------------- properties of the functions
GateDone == call.fn = "check_source_token_limit" /\ call.done
GateReadable == call.content.exists /\ call.content.ok

\* estimate_tokens is reached: the file is read and its content is not blank
GateEstimates == GateReadable /\ Strip(TotalNewContent(call.content.data)) # <<>>

\* something fails while the gate computes the cost: the file cannot be
\* opened or parsed, or the tokenizer raises inside estimate_tokens
GateFailure == ~GateReadable \/ (GateEstimates /\ ~call.tiktoken_ok)

\* C11: whenever something fails while check_source_token_limit computes the
\* cost (unreadable or unparsable file, tokenizer raising), the decision it
\* returns is allow.
C11_AnyFailureAllows ==
  (GateDone /\ GateFailure) => call.result[1] = TRUE

\* C12: on every return path the third component of the result of
\* check_source_token_limit is the token_limit it was called with.
C12_ThirdIsTokenLimit ==
  GateDone => call.result[3] = call.token_limit

\* the new_content values of a dict, one after the other
RECURSIVE Concatenated(_)
Concatenated(dict) ==
  IF dict = <<>> THEN <<>>
  ELSE Head(dict).new_content \o Concatenated(Tail(dict))

\* C13: two source-diff files whose new_content values concatenate, in
\* order, to the same text get the same cost from check_source_token_limit,
\* however the text is split into sections and whatever their keys.
C13_CostIgnoresSections ==
  (GateDone /\ GateReadable) =>
    \A d \in GateDicts :
      Concatenated(d) = Concatenated(call.content.data)
        => check_source_token_limit(JsonFile(d, ThisRun), call.token_limit,
                                    call.tiktoken_ok)[2] = call.result[2]

Prefixes(s) == {SubSeq(s, 1, n) : n \in 0..Len(s)}

\* C14: for every text B and every prefix A of B, estimate_tokens(A) is at
\* most estimate_tokens(B), whether the tokenizer or the len // 4 fallback
\* answers either call.
C14_EstimateMonotonic ==
  (call.fn = "estimate_tokens" /\ call.done) =>
    \A A \in Prefixes(call.text), ok \in BOOLEAN :
      estimate_tokens(A, ok) <= call.result

\* the service gave content that can be used: a text that is not blank
Usable(answer) ==
  answer.kind = "response" /\ ~answer.isnone /\ Strip(answer.content) # <<>>

\* C20: whatever chat_completion returns is the text the service generated;
\* when the service gave no usable content it raises.
C20_ReturnsServiceTextOrRaises ==
  (call.fn = "chat_completion" /\ call.done /\ call.result.kind = "return") =>
    /\ call.answer.kind = "response" /\ ~call.answer.isnone
    /\ call.result.text = Strip(call.answer.content)


\* some section of the dict has a new_content that is not blank
NonBlank(dict) ==
  \E k \in DOMAIN dict : dict[k].isdict /\ Strip(dict[k].new_content) # <<>>

\* C22: on a readable source-diff file check_source_token_limit denies
\* exactly when the new content is not blank and its estimated token count
\* is greater than the limit; a count equal to the limit is allowed, and
\* with no new_content at all the answer is allow with cost 0.
C22_DeniesExactlyAboveCeiling ==
  (GateDone /\ GateReadable) =>
    LET dict == call.content.data
        cost == estimate_tokens(TotalNewContent(dict), call.tiktoken_ok)
    IN /\ (call.result[1] = FALSE) <=> (NonBlank(dict) /\ cost > call.token_limit)
       /\ (NonBlank(dict) /\ cost = call.token_limit)
            => call.result = <<TRUE, cost, call.token_limit>>
       /\ (\A k \in DOMAIN dict : dict[k].new_content = <<>>)
            => (call.result[1] = TRUE /\ call.result[2] = 0)

C22_Witness ==
  /\ GateDone /\ GateReadable
  /\ NonBlank(call.content.data)
  /\ call.result[1] = TRUE
  /\ call.result[2] = call.token_limit

\* the block of a file in the text of get_pr_diff: its header, its patch
\* lines, its line of dashes; nothing when the file has no patch
BlockOf(files, q) ==
  IF \E k \in DOMAIN files : files[k].filename = q /\ files[k].patch # <<>>
  THEN LET k == CHOOSE k \in DOMAIN files : files[k].filename = q
       IN <<FilePrefixText \o q>> \o files[k].patch \o <<Dashes>>
  ELSE <<>>

\* C27: on a text assembled by get_pr_diff, extract_file_diff_from_pr
\* returns the whole block of the file asked for (header, every patch line,
\* separator) and nothing else, and the empty text when it has no block.
C27_ExtractReturnsWholeBlock ==
  (call.fn = "extract_file_diff_from_pr" /\ call.done) =>
    call.result = BlockOf(call.files, call.path)

\* ------------------------------------------------ properties of main, again
Unreadable(file) == ~file.exists \/ ~file.ok
LoopPast(i) ==
  mpc \in {"images", "summary", "done"} \/ (mpc = "modified" /\ i < idx)

\* C15: when the source-diff file of a modified file is missing or cannot be
\* parsed, process_regular_modified_file returns False with no target fetch,
\* no match, no translation and no write to temp_output or the target tree,
\* and main still calls it for the modified files that follow.
C15_UnreadableSourceDiffSkipsFile ==
  /\ (InCall /\ fpc # "load"
        /\ Unreadable(temp_before[SourceDiffDictFile(CurrentFile)]))
     => /\ fpc = "returned"
        /\ returned[CurrentFile] = "False"
        /\ trace \in {<<"no_source_diff">>, <<"raise">>}
        /\ target = target_before
        /\ temp = temp_before
  /\ \A i, j \in DOMAIN modified_sections :
       (i < j /\ LoopPast(j)
          /\ Attempted(modified_sections[i]) /\ Attempted(modified_sections[j])
          /\ Unreadable(temp[SourceDiffDictFile(modified_sections[i])]))
         => /\ returned[modified_sections[i]] = "False"
            /\ returned[modified_sections[j]] # NotReturned

C15_Witness ==
  /\ InCall /\ fpc = "returned" /\ idx = 2
  /\ temp[SourceDiffDictFile(modified_sections[1])].exists
  /\ ~temp[SourceDiffDictFile(modified_sections[1])].ok
  /\ returned[modified_sections[1]] = "False"
  /\ returned[modified_sections[2]] = "True"

\* C16: when the matcher returns no matched section, the call returns False
\* at once: no match file is written, no translation is requested and the
\* target tree is not written.
C16_NoMatchSkipsFile ==
  (InCall /\ "no_match" \in Range(trace))
  => /\ fpc = "returned"
     /\ returned[CurrentFile] = "False"
     /\ trace = <<"load", "gate_allow", "fetch", "no_match">>
     /\ temp = temp_before
     /\ target = target_before

C16_Witness ==
  /\ InCall /\ fpc = "returned" /\ idx = 2
  /\ trace = <<"load", "gate_allow", "fetch", "no_match">>
  /\ ~temp[MatchFile(CurrentFile)].exists
  /\ returned[modified_sections[1]] = "True"

IsSpecial(p) == Basename(p) \in SPECIAL_FILES

\* C17: a path whose base name is in SPECIAL_FILES is never handed to
\* process_regular_modified_file, also when it is among the modified files:
\* no call is in progress for it, none has returned for it, and this run
\* writes no match file for it.
C17_SpecialFileNeverRegular ==
  /\ InCall => ~IsSpecial(CurrentFile)
  /\ \A p \in Paths :
       IsSpecial(p) =>
         /\ returned[p] = NotReturned
         /\ ~(temp[MatchFile(p)].exists /\ temp[MatchFile(p)].run = ThisRun
                /\ mpc # "clean")

C17_Witness ==
  /\ mpc = "done" /\ "summary" \in Range(steps)
  /\ \E i, j \in DOMAIN modified_sections :
       /\ i < j
       /\ IsSpecial(modified_sections[i])
       /\ ~IsEmptyText(extract_file_diff_from_pr(pr_diff, modified_sections[i]))
       /\ returned[modified_sections[i]] = NotReturned
       /\ returned[modified_sections[j]] = "True"


\* C18: every run of main, whatever fails in it, comes to its end with the
\* final summary printed.
C18_AlwaysPrintsTally ==
  <>(mpc = "done" /\ "summary" \in Range(steps))


\* ================================================ the console and its locks
\* Two threads of one process: one runs process_regular_modified_file of
\* main_workflow_local, the other process_all_images of image_processor.
\* Each module has a print_lock of its own, taken by its thread_safe_print;
\* process_regular_modified_file also writes with the builtin print.
\* print(line) writes the text and then the line end.
MaxLines == 2

PipelineThread == "pipeline"
ImagesThread == "images"
Threads == {PipelineThread, ImagesThread}

MainPrintLock == "main_workflow_local.print_lock"
ImagePrintLock == "image_processor.print_lock"
PrintLocks == {MainPrintLock, ImagePrintLock}
Free == "free"

\* the print_lock that thread_safe_print of the thread's module takes
print_lock(t) == IF t = ImagesThread THEN ImagePrintLock ELSE MainPrintLock

\* how the thread writes its next line: thread_safe_print, or print itself
Writers(t) == IF t = ImagesThread THEN {"thread_safe_print"}
              ELSE {"thread_safe_print", "print"}

ConsoleStart ==
  [out |-> <<>>,
   pc |-> [t \in Threads |-> "idle"],
   holder |-> [l \in PrintLocks |-> Free],
   left |-> [t \in Threads |-> MaxLines]]

\* the thread comes to its next console line
NextLine(t) ==
  /\ console.pc[t] = "idle" /\ console.left[t] > 0
  /\ \E w \in Writers(t) :
       console' = [console EXCEPT
                     !.pc[t] = IF w = "print" THEN "print" ELSE "acquire"]
  /\ UNCHANGED <<mainvars, call>>

\* with print_lock: the lock is taken when it is free
Acquire(t) ==
  /\ console.pc[t] = "acquire"
  /\ console.holder[print_lock(t)] = Free
  /\ console' = [console EXCEPT !.holder[print_lock(t)] = t, !.pc[t] = "print"]
  /\ UNCHANGED <<mainvars, call>>

\* print: the text of the line is written
WriteText(t) ==
  /\ console.pc[t] = "print"
  /\ console' = [console EXCEPT !.out = Append(@, <<t, "text">>),
                                !.pc[t] = "midline"]
  /\ UNCHANGED <<mainvars, call>>

\* print: the line end is written; thread_safe_print then leaves its with
WriteEnd(t) ==
  /\ console.pc[t] = "midline"
  /\ console' = [console EXCEPT
                   !.out = Append(@, <<t, "end">>),
                   !.left[t] = @ - 1,
                   !.pc[t] = IF console.holder[print_lock(t)] = t
                             THEN "release" ELSE "idle"]
  /\ UNCHANGED <<mainvars, call>>

Release(t) ==
  /\ console.pc[t] = "release"
  /\ console' = [console EXCEPT !.holder[print_lock(t)] = Free, !.pc[t] = "idle"]
  /\ UNCHANGED <<mainvars, call>>

PrintInit ==
  /\ InitMain
  /\ token_limit = SOURCE_TOKEN_LIMIT
  /\ temp_kind = "absent"
  /\ call = NoCall
  /\ console = ConsoleStart

PrintNext ==
  \E t \in Threads :
    \/ NextLine(t)
    \/ Acquire(t)
    \/ WriteText(t)
    \/ WriteEnd(t)
    \/ Release(t)

PrintSpec == PrintInit /\ [][PrintNext]_vars

\* the thread is writing a line: between the start of print and its line end
Writing(t) == console.pc[t] \in {"print", "midline"}

MaxImages == 2

ImageB == <<"j", ".", "p", "n", "g">>
StepImagePaths == {ImageA, ImageB}
StepTrees == [StepImagePaths -> {Absent, "old"}]
StepDownloads == [StepImagePaths -> {"new", NoData}]
ImageLists == DistinctSeqs(StepImagePaths, MaxImages)

\* mutant: the added images are processed before the deleted ones
ImagePhases_AddFirst == <<"added", "deleted", "modified">>

\* lines 170-172: the three calls of process_all_images, in their order
ImagePhases == <<"deleted", "added", "modified">>
AllDone == Len(ImagePhases) + 1

ImageCalls ==
  {[fn |-> "process_all_images", added |-> a, modified |-> m, deleted |-> d,
    download |-> dl, start |-> tr, tree |-> tr, first |-> tr, run |-> 1,
    phase |-> 1, i |-> 1, log |-> <<>>] :
     a \in ImageLists, m \in ImageLists, d \in ImageLists,
     dl \in StepDownloads, tr \in StepTrees}

InImages == call.fn = "process_all_images"
InPhase(name) ==
  InImages /\ call.phase < AllDone /\ ImagePhases[call.phase] = name

\* what one pass of a loop over the images leaves in the log
Logged(op, file_path, tree) ==
  Append(call.log, [op |-> op, path |-> file_path,
                    data |-> call.download[file_path],
                    before |-> call.tree[file_path], after |-> tree[file_path]])

\* lines 145-159: one pass of the loop of process_deleted_images
ProcessDeletedImage ==
  /\ InPhase("deleted") /\ call.i <= Len(call.deleted)
  /\ LET file_path == call.deleted[call.i]
         tree == process_deleted_images(call.tree, <<file_path>>)
     IN call' = [call EXCEPT !.tree = tree, !.i = @ + 1,
                             !.log = Logged("deleted", file_path, tree)]
  /\ UNCHANGED <<mainvars, console>>

\* lines 57-90: one pass of the loop of process_added_images
ProcessAddedImage ==
  /\ InPhase("added") /\ call.i <= Len(call.added)
  /\ LET file_path == call.added[call.i]
         tree == process_added_images(call.tree, <<file_path>>, call.download)
     IN call' = [call EXCEPT !.tree = tree, !.i = @ + 1,
                             !.log = Logged("added", file_path, tree)]
  /\ UNCHANGED <<mainvars, console>>

\* lines 104-131: one pass of the loop of process_modified_images
ProcessModifiedImage ==
  /\ InPhase("modified") /\ call.i <= Len(call.modified)
  /\ LET file_path == call.modified[call.i]
         tree == process_modified_images(call.tree, <<file_path>>, call.download)
     IN call' = [call EXCEPT !.tree = tree, !.i = @ + 1,
                             !.log = Logged("modified", file_path, tree)]
  /\ UNCHANGED <<mainvars, console>>

\* the list of the call in progress
CurrentImages ==
  IF ImagePhases[call.phase] = "deleted" THEN call.deleted
  ELSE IF ImagePhases[call.phase] = "added" THEN call.added
  ELSE call.modified

\* a loop is over: the function returns and the next one is called
NextImagePhase ==
  /\ InImages /\ call.phase < AllDone
  /\ call.i > Len(CurrentImages)
  /\ call' = [call EXCEPT !.phase = @ + 1, !.i = 1]
  /\ UNCHANGED <<mainvars, console>>

\* process_all_images has returned and is called again
SecondRun ==
  /\ InImages /\ call.phase = AllDone /\ call.run = 1
  /\ call' = [call EXCEPT !.run = 2, !.first = call.tree, !.phase = 1,
                          !.i = 1, !.log = <<>>]
  /\ UNCHANGED <<mainvars, console>>

ImageInit ==
  /\ InitMain
  /\ token_limit = SOURCE_TOKEN_LIMIT
  /\ temp_kind = "absent"
  /\ call \in ImageCalls
  /\ console = Quiet

ImageNext ==
  \/ ProcessDeletedImage
  \/ ProcessAddedImage
  \/ ProcessModifiedImage
  \/ NextImagePhase
  \/ SecondRun

ImageSpec == ImageInit /\ [][ImageNext]_vars

\* ---------------------------------------------- properties of the images
SecondRunDone == InImages /\ call.run = 2 /\ call.phase = AllDone

\* C21: a second run of process_all_images with the same added, modified
\* and deleted lists and the same downloads leaves the image tree as the
\* first run left it.
C21_ImagesIdempotent ==
  /\ SecondRunDone => call.tree = call.first
  /\ (InImages /\ call.run = 2) =>
       /\ call.first = process_all_images(call.start, call.added, call.modified,
                                          call.deleted, call.download)
       /\ process_all_images(call.first, call.added, call.modified,
                             call.deleted, call.download) = call.first

C21_Witness ==
  /\ SecondRunDone
  /\ call.tree # call.start
  /\ \E p, q \in StepImagePaths :
       /\ p # q
       /\ call.start[p] = "old" /\ call.tree[p] = Absent
       /\ call.tree[q] = "new" /\ q \in Range(call.deleted)

PhaseRank(op) ==
  IF op = "deleted" THEN 1 ELSE IF op = "added" THEN 2 ELSE 3

\* C24: in a run of process_all_images every removal of a deleted image
\* comes before every write of an added image, and every write of an added
\* image before every write of a modified image.
C24_DeletedThenAddedThenModified ==
  InImages =>
    \A a, b \in DOMAIN call.log :
      a < b => PhaseRank(call.log[a].op) <= PhaseRank(call.log[b].op)

C24_Witness ==
  /\ InImages /\ call.phase = AllDone /\ Len(call.log) = 3
  /\ call.log[1].op = "deleted" /\ call.log[1].after # call.log[1].before
  /\ call.log[2].op = "added" /\ call.log[2].after = "new"
  /\ call.log[3].op = "modified" /\ call.log[3].after = "new"

\* C25: an added or modified image whose download fails leaves its target
\* file as it was, a deleted image that is not there changes nothing, and
\* in both cases every image of the three lists is still processed.
C25_FailedImageLeavesFile ==
  InImages =>
    /\ \A k \in DOMAIN call.log :
         LET e == call.log[k]
         IN /\ (e.op # "deleted" /\ e.data = NoData) => e.after = e.before
            /\ (e.op = "deleted" /\ e.before = Absent) => e.after = Absent
    /\ call.phase = AllDone =>
         /\ Len(call.log) = Len(call.deleted) + Len(call.added) + Len(call.modified)
         /\ [k \in DOMAIN call.log |-> call.log[k].path]
              = call.deleted \o call.added \o call.modified

C25_Witness ==
  /\ InImages /\ call.phase = AllDone /\ Len(call.log) = 3
  /\ call.log[1].op = "deleted" /\ call.log[1].before = Absent
  /\ call.log[2].op = "added" /\ call.log[2].data = NoData
  /\ call.log[2].before = "old" /\ call.tree[call.log[2].path] = "old"
  /\ call.log[3].op = "added" /\ call.log[3].after = "new"


\* ------------------------------------------- properties of the annotation
\* the match file as PrmfSaveMatch wrote it for the call in progress
SavedMatch == JsonFile(enhanced_sections, ThisRun)
TranslationUnusable == {"no_results", "translation_failed"}

\* C23: when the translation stage returns nothing, reports failure or
\* returns no mapping, the call returns False, the match file stays as it
\* was saved, with no target_new_content, and the target tree is not written.
C23_UnusableTranslationSkipsFile ==
  (InCall /\ fpc # "idle" /\ trace # <<>> /\ Last(trace) \in TranslationUnusable)
  => /\ fpc = "returned"
     /\ returned[CurrentFile] = "False"
     /\ trace \in {Append(SubSeq(FullPipeline, 1, 6), u) : u \in TranslationUnusable}
     /\ temp[MatchFile(CurrentFile)].exists
     /\ \A k \in DOMAIN temp[MatchFile(CurrentFile)].data :
          temp[MatchFile(CurrentFile)].data[k].target_new_content = Unset
     /\ \A n \in DOMAIN temp :
          n # MatchFile(CurrentFile) => temp[n] = temp_before[n]
     /\ target = target_before

C23_Witness ==
  /\ InCall /\ fpc = "returned" /\ idx = 2
  /\ Last(trace) = "translation_failed"
  /\ Len(temp[MatchFile(CurrentFile)].data) = 2
  /\ returned[modified_sections[1]] = "True"

\* a record without its target_new_content
Bare(record) == [record EXCEPT !.target_new_content = Unset]

\* C26: the annotation changes target_new_content alone: the match file has
\* the same records, in the same order, and every other field of every
\* record is what the matcher saved.
C26_AnnotationChangesOneField ==
  (InCall /\ fpc = "update") =>
    LET data == temp[MatchFile(CurrentFile)].data
    IN /\ Len(data) = Len(enhanced_sections)
       /\ \A k \in DOMAIN data : Bare(data[k]) = enhanced_sections[k]

C26_Witness ==
  /\ InCall /\ fpc = "update"
  /\ Len(enhanced_sections) = 2
  /\ \E k \in DOMAIN MatchData :
       /\ MatchData[k].target_new_content = Text(TextX)
       /\ MatchData[k].target_content = TextT
  /\ \E k \in DOMAIN MatchData : MatchData[k].target_new_content = Null

====
